---- MODULE Spec2Model ----
(***************************************************************************)
(* Model of the newgtlds tool of the public suffix list repository: the    *)
(* dat-file splice engine (datFile, gTLDDatSpan), the ICANN gTLD data      *)
(* source (GTLDEntry, filterGTLDs, GetGTLDs) and processGTLDs.             *)
(*                                                                         *)
(* Text.  A Go string is modelled as a sequence of atoms.  Every atom is   *)
(* a fixed piece of text; "\n" is the only atom that holds a newline and   *)
(* " " the only one that is white space.  The atoms are chosen so that no  *)
(* concatenation of atoms spells another atom, hence two sequences are     *)
(* equal exactly when the strings they spell are equal.  A line is a       *)
(* string without "\n"; a []string is a sequence of strings.  Go indices   *)
(* are 0-based: Go's lines[i] is lines[i + 1] here.                        *)
(***************************************************************************)
EXTENDS Integers, Sequences, FiniteSets, TLC

VARIABLES
    disk,      \* the text of the file at -psl-dat-file
    upstream,  \* the HTTP response the registry serves in this behaviour
    datFile,   \* the *datFile in memory (NoFile: none)
    fresh,     \* datFile is readDatFileContent(disk), untouched since
    written,   \* disk was written by the tool in this behaviour
    runs,      \* how many times the file was read
    last       \* the last call: its name, arguments and results

vars == <<disk, upstream, datFile, fresh, written, runs, last>>

-----------------------------------------------------------------------------
(* Bounds of the model. *)

\* Longest initial file of the small-file family, in lines.
MaxLines == 5
\* Longest lines slice of a datFile built directly, as the tests build them.
MaxLit == 3
\* Longest list of gTLD records the registry serves.
MaxFeed == 2
\* Clock values processGTLDs is called with: 1..MaxClock.
MaxClock == 2
\* Times the file is read from disk in one behaviour.
MaxRuns == 2

-----------------------------------------------------------------------------
(* Strings. *)

NL == "\n"
SP == " "

PSL_GTLDS_SECTION_HEADER == <<"// newGTLDs">>
PSL_GTLDS_SECTION_FOOTER == <<"// ===END ICANN DOMAINS===">>

\* strings.Index(s, "\n") + 1, or 0 when s holds no "\n".
RECURSIVE IndexNL(_, _)
IndexNL(s, i) ==
    IF i > Len(s) THEN 0
    ELSE IF s[i] = NL THEN i
    ELSE IndexNL(s, i + 1)

\* Mutant of Split: an empty piece after the last "\n" is dropped, as a line
\* scanner does.
RECURSIVE SplitNoTrailing(_)
SplitNoTrailing(s) ==
    LET m == IndexNL(s, 1)
    IN  IF m = 0 THEN (IF s = <<>> THEN <<>> ELSE <<s>>)
        ELSE <<SubSeq(s, 1, m - 1)>> \o SplitNoTrailing(SubSeq(s, m + 1, Len(s)))

\* strings.Split(s, "\n"): cut at every "\n"; the piece after the last one
\* (all of s when there is none) is the last element, also when it is empty.
RECURSIVE Split(_)
Split(s) ==
    LET m == IndexNL(s, 1)
    IN  IF m = 0 THEN <<s>>
        ELSE <<SubSeq(s, 1, m - 1)>> \o Split(SubSeq(s, m + 1, Len(s)))

\* strings.Join(elems, sep): "" for no element, else the elements with sep
\* between neighbours.
RECURSIVE Join(_, _)
Join(elems, sep) ==
    IF Len(elems) = 0 THEN <<>>
    ELSE IF Len(elems) = 1 THEN elems[1]
    ELSE elems[1] \o sep \o Join(Tail(elems), sep)

\* Go's s[lo:hi] on a slice (0-based, hi exclusive).
Slice(s, lo, hi) == SubSeq(s, lo + 1, hi)

-----------------------------------------------------------------------------
(* Errors of the dat file code.  nil is the record NoErr. *)

NoErr == [type |-> "nil"]
errNoHeader == [type |-> "errNoHeader"]
errMultipleHeaders == [type |-> "errMultipleHeaders"]
errNoFooter == [type |-> "errNoFooter"]
errInvertedSpan(s) == [type |-> "errInvertedSpan", span |-> s]
errSpanOutOfBounds(s, n) == [type |-> "errSpanOutOfBounds", span |-> s, numLines |-> n]

-----------------------------------------------------------------------------
(* gTLDDatSpan and datFile. *)

gTLDDatSpan(start, end) == [startIndex |-> start, endIndex |-> end]

MkDatFile(ls, span) == [lines |-> ls, gTLDSpan |-> span]

\* The nil *datFile.
NoFile == [nil |-> TRUE]

\* gTLDDatSpan.validate
spanValidate(s) ==
    IF s.startIndex <= 0 THEN errNoHeader
    ELSE IF s.endIndex <= 0 THEN errNoFooter
    ELSE IF s.endIndex <= s.startIndex THEN errInvertedSpan(s)
    ELSE NoErr

\* Mutant of validate: the bounds of the span are checked first.
validateBoundsFirst(d) ==
    IF d.gTLDSpan.endIndex >= Len(d.lines)
    THEN errSpanOutOfBounds(d.gTLDSpan, Len(d.lines))
    ELSE spanValidate(d.gTLDSpan)

\* datFile.validate
validate(d) ==
    IF spanValidate(d.gTLDSpan) # NoErr THEN spanValidate(d.gTLDSpan)
    ELSE IF d.gTLDSpan.endIndex >= Len(d.lines)
         THEN errSpanOutOfBounds(d.gTLDSpan, Len(d.lines))
    ELSE NoErr

\* datFile.getGTLDLines: (lines, err).
getGTLDLines(d) ==
    IF validate(d) # NoErr THEN [ret |-> <<>>, err |-> validate(d)]
    ELSE [ret |-> Slice(d.lines, d.gTLDSpan.startIndex, d.gTLDSpan.endIndex),
          err |-> NoErr]

\* Mutant of ReplaceGTLDContent: afterLines starts one line late, after the
\* footer marker line.
ReplaceSkipsFooter(d, content) ==
    IF validate(d) # NoErr THEN [file |-> d, err |-> validate(d)]
    ELSE LET contentLines == Split(content)
             beforeLines == Slice(d.lines, 0, d.gTLDSpan.startIndex)
             afterLines == Slice(d.lines, d.gTLDSpan.endIndex + 1, Len(d.lines))
             newLines == beforeLines \o (contentLines \o afterLines)
         IN  [file |-> MkDatFile(newLines,
                          gTLDDatSpan(d.gTLDSpan.startIndex,
                                      Len(beforeLines) + Len(contentLines))),
              err |-> NoErr]

\* Mutant of ReplaceGTLDContent: the end of the span is updated before the
\* datFile is validated.
ReplaceUpdatesSpanFirst(d, content) ==
    LET moved == [d EXCEPT !.gTLDSpan.endIndex =
                        d.gTLDSpan.startIndex + Len(Split(content))]
    IN  IF validate(d) # NoErr THEN [file |-> moved, err |-> validate(d)]
        ELSE LET contentLines == Split(content)
                 beforeLines == Slice(d.lines, 0, d.gTLDSpan.startIndex)
                 afterLines == Slice(d.lines, d.gTLDSpan.endIndex, Len(d.lines))
             IN  [file |-> MkDatFile(beforeLines \o (contentLines \o afterLines),
                              moved.gTLDSpan),
                  err |-> NoErr]

\* Mutant of ReplaceGTLDContent: the end of the span is left where it was.
ReplaceKeepsEndIndex(d, content) ==
    IF validate(d) # NoErr THEN [file |-> d, err |-> validate(d)]
    ELSE LET contentLines == Split(content)
             beforeLines == Slice(d.lines, 0, d.gTLDSpan.startIndex)
             afterLines == Slice(d.lines, d.gTLDSpan.endIndex, Len(d.lines))
         IN  [file |-> MkDatFile(beforeLines \o (contentLines \o afterLines),
                          d.gTLDSpan),
              err |-> NoErr]

\* Mutant of ReplaceGTLDContent: an empty content is taken as no line.
ReplaceEmptyAsNoLine(d, content) ==
    IF validate(d) # NoErr THEN [file |-> d, err |-> validate(d)]
    ELSE LET contentLines == IF content = <<>> THEN <<>> ELSE Split(content)
             beforeLines == Slice(d.lines, 0, d.gTLDSpan.startIndex)
             afterLines == Slice(d.lines, d.gTLDSpan.endIndex, Len(d.lines))
             newLines == beforeLines \o (contentLines \o afterLines)
         IN  [file |-> MkDatFile(newLines,
                          gTLDDatSpan(d.gTLDSpan.startIndex,
                                      Len(beforeLines) + Len(contentLines))),
              err |-> NoErr]

\* datFile.ReplaceGTLDContent: (the datFile after the call, err).
ReplaceGTLDContent(d, content) ==
    IF validate(d) # NoErr THEN [file |-> d, err |-> validate(d)]
    ELSE LET contentLines == Split(content)
             beforeLines == Slice(d.lines, 0, d.gTLDSpan.startIndex)
             afterLines == Slice(d.lines, d.gTLDSpan.endIndex, Len(d.lines))
             newLines == beforeLines \o (contentLines \o afterLines)
         IN  [file |-> MkDatFile(newLines,
                          gTLDDatSpan(d.gTLDSpan.startIndex,
                                      Len(beforeLines) + Len(contentLines))),
              err |-> NoErr]

\* datFile.String
String(d) == Join(d.lines, <<NL>>)

\* The scan loop of readDatFileContent from index i on, with the header and
\* footer index found so far (0: none yet).
RECURSIVE scanLines(_, _, _, _)
scanLines(pslDatLines, i, headerIndex, footerIndex) ==
    IF i >= Len(pslDatLines)
    THEN [multi |-> FALSE, headerIndex |-> headerIndex, footerIndex |-> footerIndex]
    ELSE LET line == pslDatLines[i + 1]
             \* The end of the loop body: break with both indices, or go on.
             step(h, f) ==
                 IF h # 0 /\ f # 0
                 THEN [multi |-> FALSE, headerIndex |-> h, footerIndex |-> f]
                 ELSE scanLines(pslDatLines, i + 1, h, f)
         IN  IF line = PSL_GTLDS_SECTION_HEADER /\ headerIndex = 0
             THEN step(i, footerIndex)
             ELSE IF line = PSL_GTLDS_SECTION_HEADER /\ headerIndex # 0
             THEN [multi |-> TRUE, headerIndex |-> headerIndex,
                   footerIndex |-> footerIndex]
             ELSE IF line = PSL_GTLDS_SECTION_FOOTER /\ footerIndex = 0
             THEN step(headerIndex, i)
             ELSE step(headerIndex, footerIndex)

\* readDatFileContent: (*datFile, err).
readDatFileContent(pslData) ==
    LET pslDatLines == Split(pslData)
        found == scanLines(pslDatLines, 0, 0, 0)
        d == MkDatFile(pslDatLines,
                       gTLDDatSpan(found.headerIndex + 1, found.footerIndex))
    IN  IF found.multi THEN [file |-> NoFile, err |-> errMultipleHeaders]
        ELSE IF found.headerIndex = 0 THEN [file |-> NoFile, err |-> errNoHeader]
        ELSE IF found.footerIndex = 0 THEN [file |-> NoFile, err |-> errNoFooter]
        ELSE IF validate(d) # NoErr THEN [file |-> NoFile, err |-> validate(d)]
        ELSE [file |-> d, err |-> NoErr]

-----------------------------------------------------------------------------
(* The ICANN data source: GTLDEntry, Normalize, Comment, filterGTLDs,       *)
(* GetGTLDs; and the HTTP fetch.                                            *)

GTLD_JSON_REGISTRY_URL ==
    <<"https://www.icann.org/resources/registries/gtlds/v2/gtlds.json">>

\* unicode.IsSpace on the atoms of the model.
IsSpace(a) == a \in {SP, NL}

\* strings.TrimSpace: s without its leading and trailing white space.
RECURSIVE TrimLeft(_)
TrimLeft(s) ==
    IF Len(s) > 0 /\ IsSpace(s[1]) THEN TrimLeft(Tail(s)) ELSE s

RECURSIVE TrimRight(_)
TrimRight(s) ==
    IF Len(s) > 0 /\ IsSpace(s[Len(s)]) THEN TrimRight(SubSeq(s, 1, Len(s) - 1)) ELSE s

TrimSpace(s) == TrimRight(TrimLeft(s))

\* strings.ToLower on the atoms of the model: the upper-case labels.
LowerAtom(a) ==
    IF a = "AERO" THEN "aero"
    ELSE IF a = "AAA" THEN "aaa"
    ELSE a

ToLower(s) == [i \in 1..Len(s) |-> LowerAtom(s[i])]

legacyGTLDs ==
    { <<"aero">>, <<"asia">>, <<"biz">>, <<"cat">>, <<"com">>, <<"coop">>,
      <<"info">>, <<"jobs">>, <<"mobi">>, <<"museum">>, <<"name">>, <<"net">>,
      <<"org">>, <<"post">>, <<"pro">>, <<"tel">>, <<"xxx">> }

\* A GTLDEntry as json.Unmarshal leaves it.
GTLDEntry(a, u, op, sig, del, term, rem) ==
    [ALabel |-> a, ULabel |-> u, RegistryOperator |-> op,
     DateOfContractSignature |-> sig, DateOfDelegation |-> del,
     ContractTerminated |-> term, RemovalDate |-> rem]

\* Mutant of Normalize: the ULabel is compared before it is trimmed, so a
\* blank ULabel is not replaced by the ALabel.
NormalizeKeepsBlank(e) ==
    LET a == TrimSpace(e.ALabel)
        u == TrimSpace(e.ULabel)
    IN  [e EXCEPT !.ALabel = a,
                  !.ULabel = IF e.ULabel = <<>> THEN a ELSE u,
                  !.RegistryOperator = TrimSpace(e.RegistryOperator),
                  !.DateOfContractSignature = TrimSpace(e.DateOfContractSignature)]

\* GTLDEntry.Normalize: the entry after the call.
Normalize(e) ==
    LET a == TrimSpace(e.ALabel)
        u == TrimSpace(e.ULabel)
    IN  [e EXCEPT !.ALabel = a,
                  !.ULabel = IF u = <<>> THEN a ELSE u,
                  !.RegistryOperator = TrimSpace(e.RegistryOperator),
                  !.DateOfContractSignature = TrimSpace(e.DateOfContractSignature)]

\* Mutant of Comment: an empty DateOfContractSignature is left out of the
\* parts, as an empty RegistryOperator is.
CommentSkipsEmptyDate(e) ==
    LET parts == IF e.DateOfContractSignature # <<>>
                 THEN <<(<<"//">>), e.ALabel, (<<":">>), e.DateOfContractSignature>>
                 ELSE <<(<<"//">>), e.ALabel, (<<":">>)>>
        withOp == IF e.RegistryOperator # <<>>
                  THEN Append(parts, e.RegistryOperator) ELSE parts
        withEnd == IF e.ContractTerminated
                   THEN Append(withOp, <<"(cancelled)">>) ELSE withOp
    IN  Join(withEnd, <<SP>>)

\* GTLDEntry.Comment
Comment(e) ==
    LET parts == <<(<<"//">>), e.ALabel, (<<":">>), e.DateOfContractSignature>>
        withOp == IF e.RegistryOperator # <<>>
                  THEN Append(parts, e.RegistryOperator) ELSE parts
        withEnd == IF e.ContractTerminated
                   THEN Append(withOp, <<"(cancelled)">>) ELSE withOp
    IN  Join(withEnd, <<SP>>)

\* Mutant of IsLegacyGTLD: the name is looked up as it is written.
IsLegacyExact(tld) == tld \in legacyGTLDs

IsLegacyGTLD(tld) == ToLower(tld) \in legacyGTLDs

\* Mutant of keepGTLD: a terminated contract alone never removes an entry.
keepTerminated(entry) ==
    IF IsLegacyGTLD(entry.ALabel) THEN FALSE
    ELSE IF entry.RemovalDate # <<>> THEN FALSE
    ELSE TRUE

\* One step of the loop of filterGTLDs: is the entry kept?
keepGTLD(entry) ==
    IF IsLegacyGTLD(entry.ALabel) THEN FALSE
    ELSE IF entry.ContractTerminated /\ entry.DateOfDelegation = <<>> THEN FALSE
    ELSE IF entry.RemovalDate # <<>> THEN FALSE
    ELSE TRUE

RECURSIVE filterGTLDs(_)
filterGTLDs(entries) ==
    IF entries = <<>> THEN <<>>
    ELSE IF keepGTLD(entries[1])
         THEN <<entries[1]>> \o filterGTLDs(Tail(entries))
    ELSE filterGTLDs(Tail(entries))

\* An HTTP response: a transport failure, or a status and a body.  The body
\* is kept as what json.Unmarshal makes of it: malformed, or the GTLDs list
\* (empty when the document has no "gTLDs" array).
Response(failed, status, malformed, gtlds) ==
    [failed |-> failed, status |-> status, malformed |-> malformed, GTLDs |-> gtlds]

StatusOK == 200

\* The nil []byte.
NoBody == [nil |-> TRUE]

\* The verb %q of fmt on a string: the string between double quotes, with a
\* backslash before every double quote and every backslash in it.
RECURSIVE QuoteAtoms(_)
QuoteAtoms(s) ==
    IF s = <<>> THEN <<>>
    ELSE (IF s[1] \in {"\"", "\\"} THEN <<"\\", s[1]>> ELSE <<s[1]>>)
             \o QuoteAtoms(Tail(s))

Quote(s) == <<"\"">> \o QuoteAtoms(s) \o <<"\"">>

\* Mutant of Errorf: the status the server sent is left out of the text.
ErrorfWithoutStatus(err) ==
    <<"unexpected status code fetching data from ">> \o Quote(err.url)
        \o <<" : expected status ", ToString(err.expected)>>

\* The text of the error fmt.Errorf makes for a status other than 200:
\* "unexpected status code fetching data from %q : expected status %d got %d".
Errorf(err) ==
    <<"unexpected status code fetching data from ">> \o Quote(err.url)
        \o <<" : expected status ", ToString(err.expected),
             " got ", ToString(err.got)>>

\* datasource.GetHTTPData on the response resp to a GET of url: (body, err).
GetHTTPData(url, resp) ==
    IF resp.failed THEN [body |-> NoBody, err |-> [type |-> "http.Get"]]
    ELSE IF resp.status # StatusOK
         THEN [body |-> NoBody,
               err |-> [type |-> "unexpected status code", url |-> url,
                        expected |-> StatusOK, got |-> resp.status]]
    ELSE [body |-> resp, err |-> NoErr]

\* Mutant of GetGTLDs: a list left empty by the filter is returned as it is.
GetGTLDsAllowsEmpty(url, resp) ==
    LET got == GetHTTPData(url, resp)
        normalized == [i \in 1..Len(got.body.GTLDs) |-> Normalize(got.body.GTLDs[i])]
        filtered == filterGTLDs(normalized)
    IN  IF got.err # NoErr THEN [entries |-> <<>>, err |-> got.err]
        ELSE IF got.body.malformed
             THEN [entries |-> <<>>, err |-> [type |-> "unmarshaling ICANN gTLD JSON data"]]
        ELSE IF Len(got.body.GTLDs) = 0
             THEN [entries |-> <<>>,
                   err |-> [type |-> "found no gTLD information after unmarshaling"]]
        ELSE [entries |-> filtered, err |-> NoErr]

\* icann.GetGTLDs: (entries, err).
GetGTLDs(url, resp) ==
    LET got == GetHTTPData(url, resp)
        normalized == [i \in 1..Len(got.body.GTLDs) |-> Normalize(got.body.GTLDs[i])]
        filtered == filterGTLDs(normalized)
    IN  IF got.err # NoErr THEN [entries |-> <<>>, err |-> got.err]
        ELSE IF got.body.malformed
             THEN [entries |-> <<>>, err |-> [type |-> "unmarshaling ICANN gTLD JSON data"]]
        ELSE IF Len(got.body.GTLDs) = 0
             THEN [entries |-> <<>>,
                   err |-> [type |-> "found no gTLD information after unmarshaling"]]
        ELSE IF Len(filtered) = 0
             THEN [entries |-> <<>>,
                   err |-> [type |-> "found no gTLD information after removing legacy and contract terminated gTLDs"]]
        ELSE [entries |-> filtered, err |-> NoErr]

-----------------------------------------------------------------------------
(* Rendering and processGTLDs. *)

\* time.Time.UTC().Format(time.RFC3339) of the clock value t, counted in
\* seconds from 2021-02-10T00:24:10Z.
FormatRFC3339(t) == <<"2021-02-10T00:24:1" \o ToString(t) \o "Z">>

\* renderGTLDHeader with pslGTLDHeaderTemplate.
renderGTLDHeader(clk) ==
    <<NL, "// List of new gTLDs imported from ">> \o GTLD_JSON_REGISTRY_URL
        \o <<" on ">> \o FormatRFC3339(clk)
        \o <<NL, "// This list is auto-generated, don't edit it manually.">>

\* Mutant of renderGTLDData: the "\n" before end is trimmed away, so no
\* blank line follows an entry.
RECURSIVE renderNoBlankLine(_)
renderNoBlankLine(entries) ==
    IF entries = <<>> THEN <<>>
    ELSE Comment(entries[1]) \o <<NL>> \o entries[1].ULabel \o <<NL>>
             \o renderNoBlankLine(Tail(entries))

\* Mutant of renderGTLDData: the entries are written last to first.
RECURSIVE renderReversed(_)
renderReversed(entries) ==
    IF entries = <<>> THEN <<>>
    ELSE renderReversed(Tail(entries))
             \o Comment(entries[1]) \o <<NL>> \o entries[1].ULabel \o <<NL>> \o <<NL>>

\* renderGTLDData with pslGTLDTemplate: for every entry of the range, the
\* comment, "\n", the ULabel printed with "%s\n", and the "\n" before end.
RECURSIVE renderGTLDData(_)
renderGTLDData(entries) ==
    IF entries = <<>> THEN <<>>
    ELSE Comment(entries[1]) \o <<NL>> \o entries[1].ULabel \o <<NL>> \o <<NL>>
             \o renderGTLDData(Tail(entries))

errTooSmall == [type |-> "gtld span data was too small, missing header?"]

\* Mutant of processGTLDs: the span is replaced without comparing the new
\* data with the existing data.
processAlwaysReplaces(d, dataURL, resp, clk) ==
    LET span == getGTLDLines(d)
        newHeader == renderGTLDHeader(clk)
        headerLen == Len(Split(newHeader))
        got == GetGTLDs(dataURL, resp)
        repl == ReplaceGTLDContent(d, newHeader \o <<NL>> \o renderGTLDData(got.entries))
        out(file, ret, err, fetched, replaced) ==
            [file |-> file, ret |-> ret, err |-> err,
             fetched |-> fetched, replaced |-> replaced]
    IN  IF span.err # NoErr THEN out(d, <<>>, span.err, FALSE, FALSE)
        ELSE IF Len(span.ret) <= headerLen THEN out(d, <<>>, errTooSmall, FALSE, FALSE)
        ELSE IF got.err # NoErr THEN out(d, <<>>, got.err, TRUE, FALSE)
        ELSE out(repl.file, String(repl.file), NoErr, TRUE, TRUE)

\* Mutant of processGTLDs: an error of GetGTLDs is dropped, and the span is
\* replaced by what the empty list renders to.
processIgnoresFetchError(d, dataURL, resp, clk) ==
    LET span == getGTLDLines(d)
        spanLines == span.ret
        newHeader == renderGTLDHeader(clk)
        headerLen == Len(Split(newHeader))
        existingData == Join(Slice(spanLines, headerLen, Len(spanLines)), <<NL>>)
        got == GetGTLDs(dataURL, resp)
        newData == renderGTLDData(got.entries)
        repl == ReplaceGTLDContent(d, newHeader \o <<NL>> \o newData)
        out(file, ret, err, fetched, replaced) ==
            [file |-> file, ret |-> ret, err |-> err,
             fetched |-> fetched, replaced |-> replaced]
    IN  IF span.err # NoErr THEN out(d, <<>>, span.err, FALSE, FALSE)
        ELSE IF Len(spanLines) <= headerLen THEN out(d, <<>>, errTooSmall, FALSE, FALSE)
        ELSE IF newData # existingData
             THEN out(repl.file, String(repl.file), NoErr, TRUE, TRUE)
        ELSE out(d, String(d), NoErr, TRUE, FALSE)

\* Mutant of processGTLDs: the entries are fetched before the span is
\* measured against the header.
processFetchesFirst(d, dataURL, resp, clk) ==
    LET span == getGTLDLines(d)
        spanLines == span.ret
        newHeader == renderGTLDHeader(clk)
        headerLen == Len(Split(newHeader))
        existingData == Join(Slice(spanLines, headerLen, Len(spanLines)), <<NL>>)
        got == GetGTLDs(dataURL, resp)
        newData == renderGTLDData(got.entries)
        repl == ReplaceGTLDContent(d, newHeader \o <<NL>> \o newData)
        out(file, ret, err, fetched, replaced) ==
            [file |-> file, ret |-> ret, err |-> err,
             fetched |-> fetched, replaced |-> replaced]
    IN  IF span.err # NoErr THEN out(d, <<>>, span.err, FALSE, FALSE)
        ELSE IF got.err # NoErr THEN out(d, <<>>, got.err, TRUE, FALSE)
        ELSE IF Len(spanLines) <= headerLen THEN out(d, <<>>, errTooSmall, TRUE, FALSE)
        ELSE IF newData # existingData
             THEN out(repl.file, String(repl.file), NoErr, TRUE, TRUE)
        ELSE out(d, String(d), NoErr, TRUE, FALSE)

\* Mutant of processGTLDs: the comparison is turned around, the span is
\* replaced when the new data equals the existing data.
processReplacesOnEqual(d, dataURL, resp, clk) ==
    LET span == getGTLDLines(d)
        spanLines == span.ret
        newHeader == renderGTLDHeader(clk)
        headerLen == Len(Split(newHeader))
        existingData == Join(Slice(spanLines, headerLen, Len(spanLines)), <<NL>>)
        got == GetGTLDs(dataURL, resp)
        newData == renderGTLDData(got.entries)
        repl == ReplaceGTLDContent(d, newHeader \o <<NL>> \o newData)
        out(file, ret, err, fetched, replaced) ==
            [file |-> file, ret |-> ret, err |-> err,
             fetched |-> fetched, replaced |-> replaced]
    IN  IF span.err # NoErr THEN out(d, <<>>, span.err, FALSE, FALSE)
        ELSE IF Len(spanLines) <= headerLen THEN out(d, <<>>, errTooSmall, FALSE, FALSE)
        ELSE IF got.err # NoErr THEN out(d, <<>>, got.err, TRUE, FALSE)
        ELSE IF newData = existingData
             THEN out(repl.file, String(repl.file), NoErr, TRUE, TRUE)
        ELSE out(d, String(d), NoErr, TRUE, FALSE)

\* Mutant of processGTLDs: the new header and the new data are put together
\* without the "\n" between them.
processJoinsWithoutNewline(d, dataURL, resp, clk) ==
    LET span == getGTLDLines(d)
        spanLines == span.ret
        newHeader == renderGTLDHeader(clk)
        headerLen == Len(Split(newHeader))
        existingData == Join(Slice(spanLines, headerLen, Len(spanLines)), <<NL>>)
        got == GetGTLDs(dataURL, resp)
        newData == renderGTLDData(got.entries)
        repl == ReplaceGTLDContent(d, newHeader \o newData)
        out(file, ret, err, fetched, replaced) ==
            [file |-> file, ret |-> ret, err |-> err,
             fetched |-> fetched, replaced |-> replaced]
    IN  IF span.err # NoErr THEN out(d, <<>>, span.err, FALSE, FALSE)
        ELSE IF Len(spanLines) <= headerLen THEN out(d, <<>>, errTooSmall, FALSE, FALSE)
        ELSE IF got.err # NoErr THEN out(d, <<>>, got.err, TRUE, FALSE)
        ELSE IF newData # existingData
             THEN out(repl.file, String(repl.file), NoErr, TRUE, TRUE)
        ELSE out(d, String(d), NoErr, TRUE, FALSE)

\* processGTLDs(datFile, dataURL, clk) when the server at dataURL answers
\* resp: the datFile after the call, the returned string and error, and which
\* calls were made (fetched: icann.GetGTLDs, replaced: ReplaceGTLDContent).
processGTLDs(d, dataURL, resp, clk) ==
    LET span == getGTLDLines(d)
        spanLines == span.ret
        newHeader == renderGTLDHeader(clk)
        headerLen == Len(Split(newHeader))
        existingData == Join(Slice(spanLines, headerLen, Len(spanLines)), <<NL>>)
        got == GetGTLDs(dataURL, resp)
        newData == renderGTLDData(got.entries)
        newContent == newHeader \o <<NL>> \o newData
        repl == ReplaceGTLDContent(d, newContent)
        out(file, ret, err, fetched, replaced) ==
            [file |-> file, ret |-> ret, err |-> err,
             fetched |-> fetched, replaced |-> replaced]
    IN  IF span.err # NoErr THEN out(d, <<>>, span.err, FALSE, FALSE)
        ELSE IF Len(spanLines) <= headerLen THEN out(d, <<>>, errTooSmall, FALSE, FALSE)
        ELSE IF got.err # NoErr THEN out(d, <<>>, got.err, TRUE, FALSE)
        ELSE IF newData # existingData
             THEN IF repl.err # NoErr THEN out(repl.file, <<>>, repl.err, TRUE, TRUE)
                  ELSE out(repl.file, String(repl.file), NoErr, TRUE, TRUE)
        ELSE out(d, String(d), NoErr, TRUE, FALSE)

-----------------------------------------------------------------------------
(* The inputs of the model. *)

\* Lines of the small files.
LinePool == { <<>>, <<"x">>, PSL_GTLDS_SECTION_HEADER, PSL_GTLDS_SECTION_FOOTER }

\* All sequences over S of length lo..hi.
SeqsUpTo(S, lo, hi) == UNION { [1..n -> S] : n \in lo..hi }

\* The small files: every file of 1..MaxLines lines of LinePool.
SmallTexts == { Join(ls, <<NL>>) : ls \in SeqsUpTo(LinePool, 1, MaxLines) }

\* The gTLD records the registry may serve: a padded plain record, an IDN
\* record whose contract was terminated after delegation, a legacy gTLD in
\* upper case, a record terminated before delegation, a removed record, and
\* a record whose ULabel spells the footer line of the dat file.
EntryAAA ==
    GTLDEntry(<<SP, "aaa", SP>>, <<>>, <<"American Automobile Association, Inc.", SP>>,
              <<"2015-02-26">>, <<"2015-11-01">>, FALSE, <<>>)
EntryIDN ==
    GTLDEntry(<<"xn--cpu">>, <<SP, "cpu-u-label">>, <<>>, <<>>, <<"2021-06-05">>, TRUE, <<>>)
EntryLegacy ==
    GTLDEntry(<<"AERO">>, <<>>, <<"SITA">>, <<"2001-12-17">>, <<"2002-03-02">>, FALSE, <<>>)
EntryTerminated ==
    GTLDEntry(<<"gone">>, <<>>, <<>>, <<"2014-03-20">>, <<>>, TRUE, <<>>)
EntryRemoved ==
    GTLDEntry(<<"old">>, <<>>, <<>>, <<"2014-03-20">>, <<"2015-01-01">>, FALSE, <<"2021-06-06">>)
EntryFooter ==
    GTLDEntry(<<"end">>, PSL_GTLDS_SECTION_FOOTER, <<>>, <<"2016-01-01">>, <<>>, FALSE, <<>>)

EntryPool ==
    { EntryAAA, EntryIDN, EntryLegacy, EntryTerminated, EntryRemoved, EntryFooter }

\* What the registry serves: any list of 0..MaxFeed records, a document
\* that does not parse, a status other than 200, or no answer at all.
Responses ==
    { Response(FALSE, StatusOK, FALSE, es) : es \in SeqsUpTo(EntryPool, 0, MaxFeed) }
        \cup { Response(FALSE, StatusOK, TRUE, <<>>),
               Response(FALSE, 451, FALSE, <<>>),
               Response(TRUE, 0, FALSE, <<>>) }

DefaultResponse == Response(FALSE, StatusOK, FALSE, <<EntryAAA>>)

\* A dat file with the given text between the marker lines.
DatText(section) ==
    <<"...", NL>> \o PSL_GTLDS_SECTION_HEADER \o <<NL>> \o section \o <<NL>>
        \o PSL_GTLDS_SECTION_FOOTER \o <<NL, NL, "...", NL>>

\* The section as an earlier run at clock 0 rendered it from the list es.
OldSection(es) ==
    renderGTLDHeader(0) \o <<NL>>
        \o renderGTLDData(filterGTLDs([i \in 1..Len(es) |-> Normalize(es[i])]))

\* The files with a section: rendered from a record, edited by hand, and
\* cut down to the bare header.
SectionTexts ==
    { DatText(OldSection(<<EntryAAA>>)),
      DatText(renderGTLDHeader(0) \o <<NL, "// edited by hand", NL>>),
      DatText(renderGTLDHeader(0)) }

\* The URLs processGTLDs is given.
URLs == { GTLD_JSON_REGISTRY_URL, <<"http://127.0.0.1:8080">> }

\* The contents ReplaceGTLDContent is given for the datFile d: the empty
\* text, a text of two lines that ends in "\n", and the span of d itself,
\* re-joined.
Contents(d) ==
    { <<>>, <<"x", NL, "y", NL>> } \cup { Join(getGTLDLines(d).ret, <<NL>>) }

\* The datFile values built directly, as the tests of the package do.
LiteralFiles ==
    { MkDatFile(ls, gTLDDatSpan(a, b)) :
        ls \in SeqsUpTo({<<"x">>}, 0, MaxLit),
        a \in -1..(MaxLit + 1), b \in -1..(MaxLit + 1) }

-----------------------------------------------------------------------------
(* The state machine. *)

\* The record of a call, before its fields are filled in.
Call(op) ==
    [op |-> op, pre |-> NoFile, onFresh |-> FALSE, content |-> <<>>,
     url |-> <<>>, clk |-> 0, err |-> NoErr, lines |-> <<>>, text |-> <<>>,
     fetched |-> FALSE, replaced |-> FALSE]

\* A call is explored from the states in which the datFile is new or was
\* just changed.  A call that changed nothing (validate, getGTLDLines,
\* String, a failed call) leaves the datFile as the state before it had it,
\* and every call that can follow it can be made from that state with the
\* same result, so no reachable state is lost.
Changed ==
    \/ last.op \in {"readDatFileContent", "datFile{}"}
    \/ datFile # last.pre
    \/ fresh # last.onFresh

\* The calls of the package are explored one by one on the files as they
\* were found (~written); once the tool has written the file, the behaviour
\* goes on as main runs: readDatFile, processGTLDs, WriteFile.

Init ==
    /\ \/ disk \in SmallTexts /\ upstream = DefaultResponse
       \/ disk \in SectionTexts /\ upstream \in Responses
    /\ datFile = NoFile
    /\ fresh = FALSE
    /\ written = FALSE
    /\ runs = 0
    /\ last = Call("none")

\* readDatFile / readDatFileContent on the file on disk, at the start of a
\* run of the tool.
ReadDatFile ==
    /\ runs < MaxRuns
    /\ last.op \in {"none", "WriteFile"}
    /\ \E r \in {readDatFileContent(disk)} :
           /\ datFile' = r.file
           /\ fresh' = (r.err = NoErr)
           /\ last' = [Call("readDatFileContent") EXCEPT !.err = r.err]
    /\ runs' = runs + 1
    /\ UNCHANGED <<disk, upstream, written>>

\* A datFile struct literal.
NewDatFile ==
    /\ runs = 0
    /\ datFile = NoFile
    /\ last.op = "none"
    /\ disk = <<>>
    /\ datFile' \in LiteralFiles
    /\ last' = Call("datFile{}")
    /\ UNCHANGED <<disk, upstream, fresh, written, runs>>

CallValidate ==
    /\ datFile # NoFile
    /\ Changed
    /\ ~written
    /\ last' = [Call("validate") EXCEPT !.pre = datFile, !.onFresh = fresh,
                                        !.err = validate(datFile)]
    /\ UNCHANGED <<disk, upstream, datFile, fresh, written, runs>>

CallGetGTLDLines ==
    /\ datFile # NoFile
    /\ Changed
    /\ ~written
    /\ \E r \in {getGTLDLines(datFile)} :
           last' = [Call("getGTLDLines") EXCEPT !.pre = datFile, !.onFresh = fresh,
                                                !.err = r.err, !.lines = r.ret]
    /\ UNCHANGED <<disk, upstream, datFile, fresh, written, runs>>

CallReplaceGTLDContent ==
    /\ datFile # NoFile
    /\ Changed
    /\ ~written
    /\ \E content \in Contents(datFile) :
         \E r \in {ReplaceGTLDContent(datFile, content)} :
             /\ datFile' = r.file
             /\ last' = [Call("ReplaceGTLDContent") EXCEPT
                            !.pre = datFile, !.onFresh = fresh,
                            !.content = content, !.err = r.err]
    /\ fresh' = FALSE
    /\ UNCHANGED <<disk, upstream, written, runs>>

CallString ==
    /\ datFile # NoFile
    /\ Changed
    /\ ~written
    /\ last' = [Call("String") EXCEPT !.pre = datFile, !.onFresh = fresh,
                                      !.text = String(datFile)]
    /\ UNCHANGED <<disk, upstream, datFile, fresh, written, runs>>

CallProcessGTLDs ==
    /\ datFile # NoFile
    /\ Changed
    /\ \E url \in URLs, clk \in 1..MaxClock :
         \E r \in {processGTLDs(datFile, url, upstream, clk)} :
             /\ datFile' = r.file
             /\ fresh' = (fresh /\ ~r.replaced)
             /\ last' = [Call("processGTLDs") EXCEPT
                            !.pre = datFile, !.onFresh = fresh, !.url = url,
                            !.clk = clk, !.err = r.err, !.text = r.ret,
                            !.fetched = r.fetched, !.replaced = r.replaced]
    /\ UNCHANGED <<disk, upstream, written, runs>>

\* main with -overwrite: the content processGTLDs returned for the file
\* just read is written over the file.
WriteFile ==
    /\ last.op = "processGTLDs"
    /\ last.err = NoErr
    /\ last.onFresh
    /\ disk' = last.text
    /\ written' = TRUE
    /\ datFile' = NoFile
    /\ fresh' = FALSE
    /\ last' = [Call("WriteFile") EXCEPT !.text = last.text]
    /\ UNCHANGED <<upstream, runs>>

Next ==
    \/ ReadDatFile
    \/ NewDatFile
    \/ CallValidate
    \/ CallGetGTLDLines
    \/ CallReplaceGTLDContent
    \/ CallString
    \/ CallProcessGTLDs
    \/ WriteFile

Spec == Init /\ [][Next]_vars

-----------------------------------------------------------------------------
(* Helpers of the properties. *)

\* The number of "\n" in the string s.
RECURSIVE CountNL(_)
CountNL(s) ==
    IF s = <<>> THEN 0
    ELSE (IF s[1] = NL THEN 1 ELSE 0) + CountNL(Tail(s))

\* The lines of the span of the datFile d, read off d.lines directly.
SpanOf(d) ==
    [i \in 1..(d.gTLDSpan.endIndex - d.gTLDSpan.startIndex) |->
        d.lines[d.gTLDSpan.startIndex + i]]

\* The span of d is within d.lines and not empty.
SpanOK(d) ==
    /\ 0 < d.gTLDSpan.startIndex
    /\ d.gTLDSpan.startIndex < d.gTLDSpan.endIndex
    /\ d.gTLDSpan.endIndex < Len(d.lines)

-----------------------------------------------------------------------------
(* The properties. *)

\* C1.  Round trip: on every file text that readDatFileContent accepts,
\* ReplaceGTLDContent with the lines of getGTLDLines() joined by "\n"
\* succeeds, String() then returns the file text byte for byte, and the
\* span indices are what they were.
C1_RoundTrip ==
    (/\ last.op = "ReplaceGTLDContent"
     /\ last.onFresh
     /\ last.content = Join(SpanOf(last.pre), <<NL>>))
        => /\ last.err = NoErr
           /\ String(datFile) = disk
           /\ datFile.gTLDSpan = last.pre.gTLDSpan

\* A round trip of a span of several lines, one of them empty.
C1_Witness ==
    /\ last.op = "ReplaceGTLDContent"
    /\ last.onFresh
    /\ last.err = NoErr
    /\ last.content = Join(SpanOf(last.pre), <<NL>>)
    /\ Len(SpanOf(last.pre)) >= 2
    /\ \E i \in 1..Len(SpanOf(last.pre)) : SpanOf(last.pre)[i] = <<>>

\* C2.  Frame of a successful ReplaceGTLDContent(content): the lines before
\* startIndex stay as they were (the header marker line included, once), the
\* lines from the old endIndex on follow the replacement in their order, and
\* between them stand the lines of content: as many as content has "\n",
\* plus one, none holding a "\n", and joined by "\n" they spell content.
C2_ReplaceFrame ==
    (last.op = "ReplaceGTLDContent" /\ last.err = NoErr)
        => LET old == last.pre.lines
               new == datFile.lines
               start == last.pre.gTLDSpan.startIndex
               end == last.pre.gTLDSpan.endIndex
               n == CountNL(last.content) + 1
           IN  /\ Len(new) = start + n + (Len(old) - end)
               /\ \A i \in 1..start : new[i] = old[i]
               /\ \A j \in 1..(Len(old) - end) : new[start + n + j] = old[end + j]
               /\ \A k \in 1..n : CountNL(new[start + k]) = 0
               /\ Join(SubSeq(new, start + 1, start + n), <<NL>>) = last.content

\* A replacement of another length than the span, with lines around it.
C2_Witness ==
    /\ last.op = "ReplaceGTLDContent"
    /\ last.err = NoErr
    /\ CountNL(last.content) = 2
    /\ Len(datFile.lines) # Len(last.pre.lines)
    /\ last.pre.gTLDSpan.endIndex + 1 < Len(last.pre.lines)

\* C3.  Fail closed: when validate() fails on the datFile, getGTLDLines and
\* ReplaceGTLDContent return the error validate() gives and leave the lines
\* and the span indices of the datFile as they were.
C3_FailClosed ==
    (/\ last.op \in {"getGTLDLines", "ReplaceGTLDContent"}
     /\ ~SpanOK(last.pre))
        => /\ last.err # NoErr
           /\ last.err = validate(last.pre)
           /\ datFile = last.pre
           /\ last.lines = <<>>

\* A ReplaceGTLDContent refused for a span that ends past the lines.
C3_Witness ==
    /\ last.op = "ReplaceGTLDContent"
    /\ last.err.type = "errSpanOutOfBounds"
    /\ Len(last.pre.lines) > 0
    /\ datFile = last.pre

\* C10.  Order of the checks of datFile.validate(), the first failure wins:
\* missing header when startIndex <= 0, whatever the rest; else missing
\* footer when endIndex <= 0; else inverted span, with the span, when
\* endIndex <= startIndex, also when endIndex is past the lines; else out of
\* bounds, with the span and the number of lines, when endIndex >= the
\* number of lines; else nil.
C10_ValidateOrder ==
    last.op = "validate"
        => LET s == last.pre.gTLDSpan
               n == Len(last.pre.lines)
               e == last.err
           IN  /\ s.startIndex <= 0 => e.type = "errNoHeader"
               /\ (s.startIndex > 0 /\ s.endIndex <= 0) => e.type = "errNoFooter"
               /\ (s.startIndex > 0 /\ s.endIndex > 0 /\ s.endIndex <= s.startIndex)
                     => (e.type = "errInvertedSpan" /\ e.span = s)
               /\ (s.startIndex > 0 /\ s.endIndex > s.startIndex /\ s.endIndex >= n)
                     => (/\ e.type = "errSpanOutOfBounds"
                         /\ e.span = s
                         /\ e.numLines = n)
               /\ (s.startIndex > 0 /\ s.endIndex > s.startIndex /\ s.endIndex < n)
                     => e.type = "nil"

\* validate() on a span that is inverted and past the lines at once.
C10_Witness ==
    /\ last.op = "validate"
    /\ last.pre.gTLDSpan.startIndex > 0
    /\ last.pre.gTLDSpan.endIndex > 0
    /\ last.pre.gTLDSpan.endIndex <= last.pre.gTLDSpan.startIndex
    /\ last.pre.gTLDSpan.endIndex >= Len(last.pre.lines)
    /\ last.err.type = "errInvertedSpan"

\* The body rendered from the entries processGTLDs fetched in the last call.
FetchedBody == renderGTLDData(GetGTLDs(last.url, upstream).entries)

\* The number of lines of the header rendered at the clock value clk.
HeaderLines(clk) == CountNL(renderGTLDHeader(clk)) + 1

\* The last call was a processGTLDs that got as far as comparing the new
\* data with the existing data: the span was valid and longer than the
\* header, and the fetch gave entries.
Compared ==
    /\ last.op = "processGTLDs"
    /\ SpanOK(last.pre)
    /\ Len(SpanOf(last.pre)) > HeaderLines(last.clk)
    /\ GetGTLDs(last.url, upstream).err = NoErr

\* The existing data of that call: the span without its first header lines.
ExistingBody ==
    Join(SubSeq(SpanOf(last.pre), HeaderLines(last.clk) + 1, Len(SpanOf(last.pre))),
         <<NL>>)

\* C4.  No-op on unchanged data: when the body rendered from the fetched
\* entries equals the lines of the span after the header lines, joined by
\* "\n", processGTLDs does not call ReplaceGTLDContent, leaves the datFile as
\* it was and returns its text, which is the file text when the datFile was
\* read from the file; this at every clock value.
C4_NoOpUnchanged ==
    (Compared /\ FetchedBody = ExistingBody)
        => /\ last.err = NoErr
           /\ ~last.replaced
           /\ datFile = last.pre
           /\ last.text = Join(last.pre.lines, <<NL>>)
           /\ last.onFresh => last.text = disk

\* A run at a clock value other than the one in the header of the file, on
\* unchanged data.
C4_Witness ==
    /\ Compared
    /\ FetchedBody = ExistingBody
    /\ last.onFresh
    /\ ~last.replaced
    /\ last.text = disk
    /\ renderGTLDHeader(last.clk) \o <<NL>> # SubSeq(Join(SpanOf(last.pre), <<NL>>), 1,
                                                     Len(renderGTLDHeader(last.clk)) + 1)

\* C5.  Idempotence: after a successful processGTLDs whose output was
\* written to the file, reading the file again and running processGTLDs with
\* the same upstream entries, at any clock value, succeeds without replacing
\* the span and returns the text of the file, byte for byte.
C5_Idempotence ==
    (/\ last.op = "processGTLDs"
     /\ last.onFresh
     /\ written)
        => /\ last.err = NoErr
           /\ ~last.replaced
           /\ last.text = disk

\* The lines an entry list is rendered to: comment, ULabel and a blank line
\* for every entry, in the order of the list.
RECURSIVE EntryLines(_)
EntryLines(es) ==
    IF es = <<>> THEN <<>>
    ELSE <<Comment(es[1]), es[1].ULabel, <<>>>> \o EntryLines(Tail(es))

\* The lines of the header rendered at the clock value clk.
HeaderLinesAt(clk) ==
    << <<>>,
       <<"// List of new gTLDs imported from ">> \o GTLD_JSON_REGISTRY_URL
           \o <<" on ">> \o FormatRFC3339(clk),
       <<"// This list is auto-generated, don't edit it manually.">> >>

\* C6.  Update on changed data: when the rendered body differs from the
\* existing body, processGTLDs replaces the span and returns the lines that
\* stood before the span, then the header rendered at the injected clock
\* value, then comment, ULabel and blank line of every surviving entry in
\* feed order and one more empty line, then the lines from the footer marker
\* to the end of the file as they were.
C6_UpdateOnChange ==
    (Compared /\ FetchedBody # ExistingBody)
        => /\ last.err = NoErr
           /\ last.replaced
           /\ last.text =
                Join(SubSeq(last.pre.lines, 1, last.pre.gTLDSpan.startIndex)
                        \o HeaderLinesAt(last.clk)
                        \o EntryLines(GetGTLDs(last.url, upstream).entries)
                        \o << <<>> >>
                        \o SubSeq(last.pre.lines, last.pre.gTLDSpan.endIndex + 1,
                                  Len(last.pre.lines)),
                     <<NL>>)
           /\ last.pre.lines[last.pre.gTLDSpan.endIndex + 1]
                = datFile.lines[datFile.gTLDSpan.endIndex + 1]

\* An update of the file read from disk with two surviving entries.
C6_Witness ==
    /\ Compared
    /\ FetchedBody # ExistingBody
    /\ last.onFresh
    /\ last.replaced
    /\ Len(GetGTLDs(last.url, upstream).entries) = 2
    /\ GetGTLDs(last.url, upstream).entries[1] # GetGTLDs(last.url, upstream).entries[2]

\* The lines of the file on disk.
DiskLines == Split(disk)

\* Line i (counted from 1) is the first footer marker line of the file.
FirstFooterAt(i) ==
    /\ DiskLines[i] = PSL_GTLDS_SECTION_FOOTER
    /\ \A k \in 1..(i - 1) : DiskLines[k] # PSL_GTLDS_SECTION_FOOTER

\* C7.  Locate: when exactly one line of the file is the header marker, at
\* index h, wherever in the file, and the first footer marker line is at an
\* index f > h + 1, readDatFileContent succeeds with startIndex = h + 1 and
\* endIndex = f, whatever follows line f.  (Go's h and f are h - 1 and f - 1
\* of the formula.)
C7_Locate ==
    last.op = "readDatFileContent"
        => \A h, f \in 1..Len(DiskLines) :
             (/\ DiskLines[h] = PSL_GTLDS_SECTION_HEADER
              /\ \A k \in 1..Len(DiskLines) :
                    k # h => DiskLines[k] # PSL_GTLDS_SECTION_HEADER
              /\ FirstFooterAt(f)
              /\ f > h + 1)
                => /\ last.err = NoErr
                   /\ datFile # NoFile
                   /\ datFile.gTLDSpan = gTLDDatSpan(h, f - 1)

\* C8.  Ambiguous span: when the header marker stands on two lines that
\* both precede the first footer marker line, readDatFileContent returns the
\* multiple-headers error and no datFile.
C8_MultipleHeaders ==
    last.op = "readDatFileContent"
        => ((\E i, j, f \in 1..Len(DiskLines) :
               /\ i < j
               /\ j < f
               /\ DiskLines[i] = PSL_GTLDS_SECTION_HEADER
               /\ DiskLines[j] = PSL_GTLDS_SECTION_HEADER
               /\ FirstFooterAt(f))
            => (last.err = errMultipleHeaders /\ datFile = NoFile))

\* C9.  Missing markers: a file without a header marker line gets the
\* missing-header error, with or without a footer marker line; a file with
\* a header marker line and without a footer marker line gets the
\* missing-footer error.
C9_MissingMarkers ==
    last.op = "readDatFileContent"
        => LET hasHeader == \E i \in 1..Len(DiskLines) :
                                DiskLines[i] = PSL_GTLDS_SECTION_HEADER
               hasFooter == \E i \in 1..Len(DiskLines) :
                                DiskLines[i] = PSL_GTLDS_SECTION_FOOTER
           IN  /\ ~hasHeader => last.err = errNoHeader
               /\ (hasHeader /\ ~hasFooter) => last.err = errNoFooter

-----------------------------------------------------------------------------
(* The structure of the datFile. *)

\* The datFile in hand came from readDatFileContent: the datFile literals
\* are built only before the first run, and no file is read after them.
FromRead == datFile # NoFile /\ runs >= 1

\* C11.  Structural invariant: every datFile that readDatFileContent
\* returned, and every datFile reached from it by successful
\* ReplaceGTLDContent calls (made directly or by processGTLDs), has
\* 0 < startIndex < endIndex < len(lines), the header marker on the line
\* before startIndex and the footer marker on the line at endIndex (Go's
\* lines[i] is lines[i + 1] here).
C11_Structure ==
    FromRead
        => /\ 0 < datFile.gTLDSpan.startIndex
           /\ datFile.gTLDSpan.startIndex < datFile.gTLDSpan.endIndex
           /\ datFile.gTLDSpan.endIndex < Len(datFile.lines)
           /\ datFile.lines[datFile.gTLDSpan.startIndex] = PSL_GTLDS_SECTION_HEADER
           /\ datFile.lines[datFile.gTLDSpan.endIndex + 1] = PSL_GTLDS_SECTION_FOOTER

\* A datFile read from text, after a second successful replacement that
\* changed the number of lines of the span.
C11_Witness ==
    /\ FromRead
    /\ last.op = "ReplaceGTLDContent"
    /\ last.err = NoErr
    /\ ~last.onFresh
    /\ datFile.gTLDSpan.endIndex # last.pre.gTLDSpan.endIndex

-----------------------------------------------------------------------------
(* The functions of the icann package on their own: Normalize, Comment,     *)
(* filterGTLDs and GetGTLDs are called on what the registry serves.         *)

\* The values of the fields of a record of the registry's JSON: empty,
\* blank, padded, with white space inside, in upper case.
ALabels == { <<>>, <<SP, "aaa", SP>>, <<"AERO">>, <<"xn--cpu">> }
ULabels == { <<>>, <<SP>>, <<NL, "cpu-u-label", SP>> }
RegistryOperators == { <<>>, <<SP>>, <<"Registry", SP, "Inc.", SP>> }
ContractDates == { <<>>, <<"2015-02-26", SP>> }
DelegationDates == { <<>>, <<SP>>, <<"2015-11-01">> }
RemovalDates == { <<>>, <<SP>>, <<"2021-06-06">> }

\* Every record over these values.
EntryGrid ==
    { GTLDEntry(a, u, op, sig, del, term, rem) :
        a \in ALabels, u \in ULabels, op \in RegistryOperators,
        sig \in ContractDates, del \in DelegationDates,
        term \in BOOLEAN, rem \in RemovalDates }

\* The record of a call of the icann package: argument, result and error.
ICANNCall(op, arg, ret, err) == [op |-> op, arg |-> arg, ret |-> ret, err |-> err]

\* Answers with a status other than 200 that carry a document all the same.
StatusResponses ==
    { Response(FALSE, s, FALSE, <<EntryAAA>>) : s \in {204, 404, 500} }

\* The URLs GetHTTPData is given: those of processGTLDs, and one with a
\* double quote in its path.
RequestURLs == URLs \cup { <<"http://127.0.0.1:8080/a", "\"", "b">> }

\* The registry serves one record of the grid, or one of Responses.
InitICANN ==
    /\ upstream \in Responses
                      \cup { Response(FALSE, StatusOK, FALSE, <<e>>) : e \in EntryGrid }
                      \cup StatusResponses
    /\ disk = <<>>
    /\ datFile = NoFile
    /\ fresh = FALSE
    /\ written = FALSE
    /\ runs = 0
    /\ last = Call("none")

\* The entries of the feed after the loop of GetGTLDs that normalizes them.
Normalized(es) == [i \in 1..Len(es) |-> Normalize(es[i])]

\* e.Normalize() on a record as unmarshaled.
CallNormalize ==
    /\ \E i \in 1..Len(upstream.GTLDs) :
         last' = ICANNCall("Normalize", upstream.GTLDs[i],
                           Normalize(upstream.GTLDs[i]), NoErr)
    /\ UNCHANGED <<disk, upstream, datFile, fresh, written, runs>>

\* e.Comment() on a record as unmarshaled, or normalized.
CallComment ==
    /\ \E i \in 1..Len(upstream.GTLDs) :
         \E e \in {upstream.GTLDs[i], Normalize(upstream.GTLDs[i])} :
             last' = ICANNCall("Comment", e, Comment(e), NoErr)
    /\ UNCHANGED <<disk, upstream, datFile, fresh, written, runs>>

\* filterGTLDs on the records as unmarshaled, or normalized.
CallFilterGTLDs ==
    /\ \E es \in {upstream.GTLDs, Normalized(upstream.GTLDs)} :
         last' = ICANNCall("filterGTLDs", es, filterGTLDs(es), NoErr)
    /\ UNCHANGED <<disk, upstream, datFile, fresh, written, runs>>

\* icann.GetGTLDs(url) when the server answers upstream.
CallGetGTLDs ==
    /\ \E url \in URLs :
         \E r \in {GetGTLDs(url, upstream)} :
             last' = ICANNCall("GetGTLDs", url, r.entries, r.err)
    /\ UNCHANGED <<disk, upstream, datFile, fresh, written, runs>>

\* datasource.GetHTTPData(url) when the server answers upstream.
CallGetHTTPData ==
    /\ \E url \in RequestURLs :
         \E r \in {GetHTTPData(url, upstream)} :
             last' = ICANNCall("GetHTTPData", url, r.body, r.err)
    /\ UNCHANGED <<disk, upstream, datFile, fresh, written, runs>>

\* renderGTLDData on the records as unmarshaled, normalized, or filtered.
CallRenderGTLDData ==
    /\ \E es \in {upstream.GTLDs, Normalized(upstream.GTLDs),
                   filterGTLDs(Normalized(upstream.GTLDs))} :
         last' = ICANNCall("renderGTLDData", es, renderGTLDData(es), NoErr)
    /\ UNCHANGED <<disk, upstream, datFile, fresh, written, runs>>

NextICANN ==
    \/ CallNormalize
    \/ CallComment
    \/ CallFilterGTLDs
    \/ CallGetGTLDs
    \/ CallGetHTTPData
    \/ CallRenderGTLDData

SpecICANN == InitICANN /\ [][NextICANN]_vars

-----------------------------------------------------------------------------
(* The properties of the icann package. *)

\* The elements of the sequence s.
Range(s) == { s[i] : i \in 1..Len(s) }

\* The rule of the filter, read off an entry: none of the three reasons to
\* remove it holds.
FilterRule(e) ==
    /\ ToLower(e.ALabel) \notin legacyGTLDs
    /\ ~(e.ContractTerminated /\ e.DateOfDelegation = <<>>)
    /\ e.RemovalDate = <<>>

\* C12.  Filter rule: filterGTLDs returns the entries of its input, in the
\* order of the input, for which none of these holds: the ALabel in lower
\* case is one of the 17 legacy names; ContractTerminated with an empty
\* DateOfDelegation; a non-empty RemovalDate.  So a terminated entry with a
\* DateOfDelegation and without RemovalDate is kept.
C12_FilterRule ==
    /\ Cardinality(legacyGTLDs) = 17
    /\ last.op = "filterGTLDs" => last.ret = SelectSeq(last.arg, FilterRule)

\* filterGTLDs kept a terminated, delegated entry and removed another entry
\* of a list of two.
C12_Witness ==
    /\ last.op = "filterGTLDs"
    /\ Len(last.arg) = 2
    /\ Len(last.ret) = 1
    /\ last.ret[1].ContractTerminated
    /\ last.ret[1].DateOfDelegation # <<>>
    /\ last.ret[1] = last.arg[2]

Trimmed(s) == s = <<>> \/ (~IsSpace(s[1]) /\ ~IsSpace(s[Len(s)]))

\* C14.  After Normalize none of the six string fields of the entry has
\* leading or trailing white space.
C14_AllTrimmed ==
    last.op = "Normalize"
        => /\ Trimmed(last.ret.ALabel)
           /\ Trimmed(last.ret.ULabel)
           /\ Trimmed(last.ret.RegistryOperator)
           /\ Trimmed(last.ret.DateOfContractSignature)
           /\ Trimmed(last.ret.DateOfDelegation)
           /\ Trimmed(last.ret.RemovalDate)

\* C15.  ULabel defaulting: after Normalize the ULabel is the trimmed ULabel
\* of the input when that is not empty, and the trimmed ALabel otherwise; so
\* it is not empty whenever the trimmed ALabel is not empty.
C15_ULabelDefault ==
    last.op = "Normalize"
        => /\ TrimSpace(last.arg.ULabel) # <<>>
                => last.ret.ULabel = TrimSpace(last.arg.ULabel)
           /\ TrimSpace(last.arg.ULabel) = <<>>
                => last.ret.ULabel = TrimSpace(last.arg.ALabel)
           /\ TrimSpace(last.arg.ALabel) # <<>> => last.ret.ULabel # <<>>

\* Normalize of an entry with a blank ULabel and a padded ALabel.
C15_Witness ==
    /\ last.op = "Normalize"
    /\ last.arg.ULabel = <<SP>>
    /\ last.arg.ALabel = <<SP, "aaa", SP>>
    /\ last.ret.ULabel = <<"aaa">>

\* C16.  Comment line: "//", ALabel, ":" and DateOfContractSignature joined
\* by single spaces, the date also when it is empty; then " " and the
\* RegistryOperator when that is not empty; then " (cancelled)" exactly when
\* ContractTerminated.
C16_CommentLine ==
    last.op = "Comment"
        => last.ret =
             <<"//", SP>> \o last.arg.ALabel \o <<SP, ":", SP>>
                 \o last.arg.DateOfContractSignature
                 \o (IF last.arg.RegistryOperator # <<>>
                     THEN <<SP>> \o last.arg.RegistryOperator ELSE <<>>)
                 \o (IF last.arg.ContractTerminated
                     THEN <<SP, "(cancelled)">> ELSE <<>>)

\* Comment of a terminated entry without date and without operator.
C16_Witness ==
    /\ last.op = "Comment"
    /\ last.arg.ALabel = <<"xn--cpu">>
    /\ last.arg.DateOfContractSignature = <<>>
    /\ last.arg.RegistryOperator = <<>>
    /\ last.arg.ContractTerminated
    /\ last.ret = <<"//", SP, "xn--cpu", SP, ":", SP, SP, "(cancelled)">>

\* The server answered with status 200 and a document that parses.
Parsed == ~upstream.failed /\ upstream.status = StatusOK /\ ~upstream.malformed

\* C17.  Empty output is an error: GetGTLDs returns an error when the parsed
\* feed has no entries and when the filter removes every entry, and never
\* returns an empty list with a nil error.
C17_EmptyIsError ==
    last.op = "GetGTLDs"
        => /\ (Parsed /\ Len(upstream.GTLDs) = 0) => last.err # NoErr
           /\ (Parsed /\ \A e \in Range(Normalized(upstream.GTLDs)) : ~FilterRule(e))
                => last.err # NoErr
           /\ last.err = NoErr => Len(last.ret) > 0

\* GetGTLDs on a feed of two entries that the filter removes both.
C17_Witness ==
    /\ last.op = "GetGTLDs"
    /\ Parsed
    /\ Len(upstream.GTLDs) = 2
    /\ \A e \in Range(Normalized(upstream.GTLDs)) : ~FilterRule(e)
    /\ last.err.type = "found no gTLD information after removing legacy and contract terminated gTLDs"

-----------------------------------------------------------------------------
(* The errors of processGTLDs, and its header. *)

\* The last call was a processGTLDs on a datFile with a valid span.
Processed == last.op = "processGTLDs" /\ SpanOK(last.pre)

\* C18.  Upstream failure leaves the file untouched: when fetching, parsing
\* or filtering the feed fails (a feed without entries included),
\* processGTLDs does not call ReplaceGTLDContent and leaves lines and span
\* of the datFile as they were; and when it got as far as the fetch (the span
\* is longer than the header) it returns the error of GetGTLDs and no text.
C18_UpstreamFailure ==
    (last.op = "processGTLDs" /\ GetGTLDs(last.url, upstream).err # NoErr)
        => /\ ~last.replaced
           /\ datFile = last.pre
           /\ last.err # NoErr
           /\ last.text = <<>>
           /\ (SpanOK(last.pre) /\ Len(SpanOf(last.pre)) > HeaderLines(last.clk))
                => /\ last.err = GetGTLDs(last.url, upstream).err
                   /\ last.fetched

\* processGTLDs on the file read from disk, with a feed that parses to no
\* entries.
C18_Witness ==
    /\ Processed
    /\ last.onFresh
    /\ Len(SpanOf(last.pre)) > HeaderLines(last.clk)
    /\ Parsed
    /\ upstream.GTLDs = <<>>
    /\ last.err.type = "found no gTLD information after unmarshaling"
    /\ datFile = last.pre

\* C19.  Span too small: the rendered header has 3 lines at every clock
\* value, and on a span of 3 lines or fewer processGTLDs returns the
\* too-small error without fetching, whatever the server would answer, and
\* does not change the datFile.
C19_TooSmall ==
    /\ \A clk \in 0..MaxClock : Len(Split(renderGTLDHeader(clk))) = 3
    /\ (Processed /\ Len(SpanOf(last.pre)) <= 3)
          => /\ last.err = errTooSmall
             /\ last.err.type = "gtld span data was too small, missing header?"
             /\ ~last.fetched
             /\ ~last.replaced
             /\ last.text = <<>>
             /\ datFile = last.pre

\* processGTLDs on a file whose span is the bare header, when the server
\* does not answer.
C19_Witness ==
    /\ Processed
    /\ last.onFresh
    /\ Len(SpanOf(last.pre)) = 3
    /\ upstream.failed
    /\ last.err = errTooSmall

\* C20.  Header URL: the URL in the line "// List of new gTLDs imported from
\* <URL> on <timestamp>" that processGTLDs writes is the dataURL it was
\* given.
C20_HeaderURL ==
    (Processed /\ last.replaced /\ last.err = NoErr)
        => datFile.lines[datFile.gTLDSpan.startIndex + 2]
             = <<"// List of new gTLDs imported from ">> \o last.url
                   \o <<" on ">> \o FormatRFC3339(last.clk)

-----------------------------------------------------------------------------
(* One run of the command: main, step by step.                              *)

\* The run of main so far: the next step, the -overwrite flag, what was
\* printed to standard output, the exit code once exited, the number of
\* calls of ioutil.WriteFile, the steps that returned without error, the
\* file as it was at the start, the content in hand and the error reported.
MainCall(overwrite, orig) ==
    [op |-> "main", pc |-> "readDatFile", overwrite |-> overwrite,
     stdout |-> <<>>, exited |-> FALSE, code |-> 0, writes |-> 0,
     steps |-> <<>>, orig |-> orig, content |-> <<>>, err |-> NoErr]

\* Mutant of Quit: the error is reported and the run goes on to the output.
QuitGoesOn(run, err) ==
    [run EXCEPT !.pc = "output", !.err = err]

\* ifErrQuit(err) with an error: the error goes to standard error and the
\* process exits with code 1.
Quit(run, err) ==
    [run EXCEPT !.pc = "exited", !.exited = TRUE, !.code = 1, !.err = err]

\* The step named pc returned without error, the next step is next.
Passed(run, next) ==
    [run EXCEPT !.pc = next, !.steps = Append(run.steps, run.pc)]

\* What fmt.Printf("PslList Size: %v\n", pslList.Size()) prints; the size is
\* the library's count of the rules, written here as one atom.
PslListSizeLine == <<"PslList Size: ", "pslList.Size()", NL>>

InitMain ==
    /\ \/ disk \in SmallTexts /\ upstream = DefaultResponse
       \/ disk \in SectionTexts /\ upstream \in Responses
    /\ datFile = NoFile
    /\ fresh = FALSE
    /\ written = FALSE
    /\ runs = 0
    /\ \E overwrite \in BOOLEAN : last = MainCall(overwrite, disk)

\* datFile, err := readDatFile(*pslDatFile); ifErrQuit(err)
MainReadDatFile ==
    /\ last.op = "main"
    /\ last.pc = "readDatFile"
    /\ \E r \in {readDatFileContent(disk)} :
         /\ datFile' = r.file
         /\ fresh' = (r.err = NoErr)
         /\ last' = IF r.err # NoErr THEN Quit(last, r.err)
                    ELSE Passed(last, "processGTLDs")
    /\ runs' = runs + 1
    /\ UNCHANGED <<disk, upstream, written>>

\* content, err := processGTLDs(datFile, ICANN_GTLD_JSON_URL, nil);
\* ifErrQuit(err).  The nil clock is the real clock.
MainProcessGTLDs ==
    /\ last.op = "main"
    /\ last.pc = "processGTLDs"
    /\ \E clk \in 1..MaxClock :
         \E r \in {processGTLDs(datFile, GTLD_JSON_REGISTRY_URL, upstream, clk)} :
             /\ datFile' = r.file
             /\ fresh' = (fresh /\ ~r.replaced)
             /\ last' = IF r.err # NoErr THEN Quit(last, r.err)
                        ELSE [Passed(last, "NewListFromString") EXCEPT
                                 !.content = r.ret]
    /\ UNCHANGED <<disk, upstream, written, runs>>

\* pslList, err := pslGo.NewListFromString(content, nil); ifErrQuit(err);
\* fmt.Printf("PslList Size: ...").  The library accepts the content or not.
MainNewListFromString ==
    /\ last.op = "main"
    /\ last.pc = "NewListFromString"
    /\ \E ok \in BOOLEAN :
         last' = IF ~ok THEN Quit(last, [type |-> "publicsuffix.NewListFromString"])
                 ELSE [Passed(last, "output") EXCEPT
                          !.stdout = last.stdout \o PslListSizeLine]
    /\ UNCHANGED <<disk, upstream, datFile, fresh, written, runs>>

\* if !*overwrite { fmt.Println(content); os.Exit(0) }
MainPrintln ==
    /\ last.op = "main"
    /\ last.pc = "output"
    /\ ~last.overwrite
    /\ last' = [Passed(last, "exited") EXCEPT
                   !.stdout = last.stdout \o last.content \o <<NL>>,
                   !.exited = TRUE, !.code = 0]
    /\ UNCHANGED <<disk, upstream, datFile, fresh, written, runs>>

\* err = ioutil.WriteFile(*pslDatFile, []byte(content), 0644);
\* ifErrQuit(err).  When the call fails the file is as it was (it could not
\* be opened) or cut short (it was truncated and the write failed).
MainWriteFile ==
    /\ last.op = "main"
    /\ last.pc = "output"
    /\ last.overwrite
    /\ \/ /\ disk' = last.content
          /\ last' = [Passed(last, "exited") EXCEPT
                         !.writes = last.writes + 1, !.exited = TRUE, !.code = 0]
       \/ /\ disk' \in {disk, <<>>}
          /\ last' = [Quit(last, [type |-> "ioutil.WriteFile"]) EXCEPT
                         !.writes = last.writes + 1]
    /\ written' = TRUE
    /\ UNCHANGED <<upstream, datFile, fresh, runs>>

NextMain ==
    \/ MainReadDatFile
    \/ MainProcessGTLDs
    \/ MainNewListFromString
    \/ MainPrintln
    \/ MainWriteFile

SpecMain == InitMain /\ [][NextMain]_vars

-----------------------------------------------------------------------------
(* The properties of the command. *)

\* The run of main has exited with code 0.
Succeeded == last.op = "main" /\ last.exited /\ last.code = 0

\* C21.  Overwrite mode: a successful run with -overwrite=true writes the
\* content to the file and writes nothing to standard output; a successful
\* run with -overwrite=false prints the content to standard output and does
\* not write the file.
C21_OverwriteMode ==
    Succeeded
        => IF last.overwrite
           THEN /\ disk = last.content
                /\ last.writes = 1
                /\ last.stdout = <<>>
           ELSE /\ disk = last.orig
                /\ last.writes = 0
                /\ Len(last.stdout) >= Len(last.content) + 1
                /\ SubSeq(last.stdout, Len(last.stdout) - Len(last.content),
                          Len(last.stdout)) = last.content \o <<NL>>

\* The three steps before the output.
StepsBeforeOutput == <<"readDatFile", "processGTLDs", "NewListFromString">>

Contains(s, sub) ==
    \E i \in 0..(Len(s) - Len(sub)) : SubSeq(s, i + 1, i + Len(sub)) = sub

\* The last call was GetHTTPData and the server answered with a status
\* other than 200.
BadStatus ==
    last.op = "GetHTTPData" /\ ~upstream.failed /\ upstream.status # StatusOK

-----------------------------------------------------------------------------
(* The span after ReplaceGTLDContent and after processGTLDs. *)

\* C24.  In an execution of processGTLDs ReplaceGTLDContent is called at
\* most once, and only when the newly rendered body is not equal to the
\* existing body: the datFile after the call is the datFile before it, or
\* the result of one ReplaceGTLDContent with the new header, "\n" and the
\* new body, and the second only when the bodies were compared and differ.
C24_ReplaceOnce ==
    last.op = "processGTLDs"
        => /\ last.replaced => (Compared /\ FetchedBody # ExistingBody)
           /\ last.replaced
                => datFile = ReplaceGTLDContent(last.pre,
                                 renderGTLDHeader(last.clk) \o <<NL>> \o FetchedBody).file
           /\ ~last.replaced => datFile = last.pre

\* A processGTLDs that called ReplaceGTLDContent on a datFile that an
\* earlier call had changed already.
C24_Witness ==
    /\ last.op = "processGTLDs"
    /\ last.replaced
    /\ ~last.onFresh
    /\ datFile # last.pre

\* C25.  Span update on Replace: after a successful ReplaceGTLDContent the
\* startIndex is as before, endIndex is startIndex plus the number of "\n"
\* of the content plus one, and getGTLDLines returns the lines of the
\* content; so the span has at least one line, also for the empty content.
C25_SpanUpdate ==
    (last.op = "ReplaceGTLDContent" /\ last.err = NoErr)
        => /\ datFile.gTLDSpan.startIndex = last.pre.gTLDSpan.startIndex
           /\ datFile.gTLDSpan.endIndex
                = datFile.gTLDSpan.startIndex + CountNL(last.content) + 1
           /\ getGTLDLines(datFile).err = NoErr
           /\ getGTLDLines(datFile).ret = Split(last.content)
           /\ Len(getGTLDLines(datFile).ret) >= 1
           /\ \A i \in 1..Len(Split(last.content)) :
                 CountNL(Split(last.content)[i]) = 0
           /\ Join(Split(last.content), <<NL>>) = last.content

\* A successful ReplaceGTLDContent with the empty content on a span of
\* more than one line: the span is one empty line.
C25_Witness ==
    /\ last.op = "ReplaceGTLDContent"
    /\ last.err = NoErr
    /\ last.content = <<>>
    /\ Len(SpanOf(last.pre)) > 1
    /\ SpanOf(datFile) = << <<>> >>

\* C26.  The stored span reflects the latest render: after every successful
\* processGTLDs, replaced or not, the lines of the span after the first
\* headerLen lines, joined by "\n", equal the body rendered from the entries
\* fetched in that call.
C26_SpanIsLatestRender ==
    (last.op = "processGTLDs" /\ last.err = NoErr)
        => /\ SpanOK(datFile)
           /\ Len(SpanOf(datFile)) > HeaderLines(last.clk)
           /\ Join(SubSeq(SpanOf(datFile), HeaderLines(last.clk) + 1,
                          Len(SpanOf(datFile))), <<NL>>) = FetchedBody

\* A successful processGTLDs that replaced a span written by hand, whose
\* lines after the header were not the rendered body.
C26_Witness ==
    /\ last.op = "processGTLDs"
    /\ last.err = NoErr
    /\ last.replaced
    /\ last.onFresh
    /\ <<"// edited by hand">> \in Range(SpanOf(last.pre))
    /\ <<"// edited by hand">> \notin Range(SpanOf(datFile))

\* C27.  Body rendering: renderGTLDData writes, for the entries in the order
\* of the list, Comment() "\n" ULabel "\n" "\n" and nothing else, the empty
\* string for the empty list.  (The expected text is the lines comment,
\* ULabel, empty of every entry, each ended by "\n".)
C27_BodyRendering ==
    last.op = "renderGTLDData"
        => last.ret = IF last.arg = <<>> THEN <<>>
                      ELSE Join(EntryLines(last.arg), <<NL>>) \o <<NL>>

\* renderGTLDData of two different entries, the second one terminated.
C27_Witness ==
    /\ last.op = "renderGTLDData"
    /\ Len(last.arg) = 2
    /\ last.arg[1] # last.arg[2]
    /\ last.arg[2].ContractTerminated
    /\ last.ret = Comment(last.arg[1]) \o <<NL>> \o last.arg[1].ULabel \o <<NL, NL>>
                    \o Comment(last.arg[2]) \o <<NL>> \o last.arg[2].ULabel \o <<NL, NL>>

-----------------------------------------------------------------------------
(* The text processGTLDs returns, read again. *)

\* C28.  The output stays re-readable: when processGTLDs succeeds on a
\* datFile that came from a file, whatever ULabel and RegistryOperator the
\* surviving entries have, readDatFileContent succeeds on the returned text
\* and finds the span where the datFile in memory has it after the call: the
\* same header marker line, the same footer marker line, the same lines.
C28_ReReadable ==
    (FromRead /\ last.op = "processGTLDs" /\ last.err = NoErr)
        => /\ readDatFileContent(last.text).err = NoErr
           /\ readDatFileContent(last.text).file.lines = datFile.lines
           /\ readDatFileContent(last.text).file.gTLDSpan = datFile.gTLDSpan

-----------------------------------------------------------------------------
(* The slices of ReplaceGTLDContent and the arrays behind them.             *)

\* Go's append(s[0:n], elems...) on a slice whose backing array is the
\* sequence array, the capacity being Len(array): when the result fits, the
\* elements are written into the array after the first n, and the result
\* shares the array; otherwise a new array is made and the old one is left
\* alone.  (array: the old backing array after the call.)
append(array, n, elems) ==
    IF n + Len(elems) <= Len(array)
    THEN [array |-> [i \in 1..Len(array) |->
                        IF i > n /\ i <= n + Len(elems) THEN elems[i - n]
                        ELSE array[i]],
          result |-> SubSeq(array, 1, n) \o elems,
          shared |-> TRUE]
    ELSE [array |-> array,
          result |-> SubSeq(array, 1, n) \o elems,
          shared |-> FALSE]

\* ReplaceGTLDContent on a datFile whose lines came from strings.Split or
\* from a slice literal, so that their capacity is their length: the inner
\* append copies contentLines and afterLines into a new array (contentLines
\* is full and afterLines is not empty), the outer append works on
\* beforeLines, which is backed by the array of d.lines.
ReplaceGTLDContentArrays(d, content) ==
    LET contentLines == Split(content)
        afterLines == Slice(d.lines, d.gTLDSpan.endIndex, Len(d.lines))
    IN  append(d.lines, d.gTLDSpan.startIndex, contentLines \o afterLines)

InitSlices ==
    /\ \/ disk \in SmallTexts
       \/ disk \in SectionTexts
    /\ upstream = DefaultResponse
    /\ datFile = NoFile
    /\ fresh = FALSE
    /\ written = FALSE
    /\ runs = 0
    /\ last = Call("none")

\* spanLines, _ := d.getGTLDLines(), then d.ReplaceGTLDContent(content), on
\* the datFile just read: what the slice spanLines and the slice of the
\* original lines hold before and after the second call.
CallReplaceHolding ==
    /\ datFile # NoFile
    /\ last.op = "readDatFileContent"
    /\ \E content \in Contents(datFile) :
         \E r \in {ReplaceGTLDContent(datFile, content)},
            a \in {ReplaceGTLDContentArrays(datFile, content)} :
             /\ datFile' = r.file
             /\ last' = [op |-> "getGTLDLines; ReplaceGTLDContent",
                         pre |-> datFile, content |-> content, err |-> r.err,
                         spanLines |-> getGTLDLines(datFile).ret,
                         spanLinesAfter |->
                             Slice(a.array, datFile.gTLDSpan.startIndex,
                                   datFile.gTLDSpan.endIndex),
                         origLinesAfter |-> a.array,
                         newLines |-> a.result,
                         shared |-> a.shared]
    /\ fresh' = FALSE
    /\ UNCHANGED <<disk, upstream, written, runs>>

NextSlices ==
    \/ ReadDatFile
    \/ CallReplaceHolding

SpecSlices == InitSlices /\ [][NextSlices]_vars

\* C29.  No aliasing side effect: ReplaceGTLDContent leaves the slice an
\* earlier getGTLDLines returned, and the slice of lines the datFile was
\* built from, element for element as they were, whether the replacement has
\* fewer, as many or more lines than the old span.
C29_NoAliasing ==
    (last.op = "getGTLDLines; ReplaceGTLDContent" /\ last.err = NoErr)
        => /\ last.newLines = datFile.lines
           /\ last.spanLinesAfter = last.spanLines
           /\ last.origLinesAfter = last.pre.lines

-----------------------------------------------------------------------------
\* C30.  Empty section is rejected: when the footer sentinel line comes
\* immediately after the single header sentinel line, readDatFileContent
\* returns the inverted-span error with startIndex = endIndex, and no
\* datFile is returned; no datFile returned has a span of zero lines.
C30_EmptySectionRejected ==
    last.op = "readDatFileContent"
        => /\ \A h \in 1..(Len(DiskLines) - 1) :
                (/\ DiskLines[h] = PSL_GTLDS_SECTION_HEADER
                 /\ \A k \in 1..Len(DiskLines) :
                       k # h => DiskLines[k] # PSL_GTLDS_SECTION_HEADER
                 /\ DiskLines[h + 1] = PSL_GTLDS_SECTION_FOOTER)
                   => /\ last.err = errInvertedSpan(gTLDDatSpan(h, h))
                      /\ datFile = NoFile
           /\ datFile # NoFile
                => datFile.gTLDSpan.endIndex > datFile.gTLDSpan.startIndex

====
